---- MODULE Spec2Model ----
(***************************************************************************)
(* process_gray (android/app/src/main/cpp/mylib.cpp): mean and population  *)
(* standard deviation of an 8-bit grayscale buffer with padded rows.       *)
(*                                                                         *)
(* One call is a run of the program counter pc through the lines of the    *)
(* function; a behaviour is a sequence of calls on one unchanged memory.   *)
(*                                                                         *)
(* Number representations                                                  *)
(*   int32_t  a TLA+ integer in -2^31 .. 2^31-1                            *)
(*   int64_t  8 bytes, little endian, two's complement (n, row)            *)
(*   double   an exact rational [num, den], den > 0, in lowest terms;      *)
(*            den = 0 is NaN (0/0) or infinity (1/0).  The rounding of a   *)
(*            double operation to 53 bits is not represented.              *)
(*   float    [m, e, surd]: the value m * 2^e, m odd or 0, as produced by  *)
(*            rounding to 24 significant bits, ties to even.  The square   *)
(*            root of a rational that is no square of a rational is kept   *)
(*            as its radicand in surd (m = 0, e = 0).                      *)
(***************************************************************************)
EXTENDS Integers, Sequences, FiniteSets, TLC

\* ------------------------------------------------------------------ bounds
MaxWidth == 2
MaxHeight == 2
MaxStride == 3
MaxLen == 4

\* the 8-bit samples a buffer is filled with, and what a read outside it gives
Samples == {0, 255}

\* ------------------------------------------------------------ 64-bit words
Pow256 == <<1, 256, 65536, 16777216>>

\* byte i (1..4) of the two's complement form of the int32_t v
Byte32(v, i) ==
  IF v >= 0 THEN (v \div Pow256[i]) % 256
            ELSE 255 - (((-v - 1) \div Pow256[i]) % 256)

\* (int64_t)v for an int32_t v: sign extension to 8 bytes
SignExtend64(v) ==
  [i \in 1..8 |-> IF i <= 4 THEN Byte32(v, i) ELSE IF v < 0 THEN 255 ELSE 0]

RECURSIVE ColSum(_, _, _, _)
\* sum of a[i] * b[k+1-i] for i in 1..j
ColSum(a, b, k, j) ==
  IF j = 0 THEN 0 ELSE a[j] * b[k + 1 - j] + ColSum(a, b, k, j - 1)

RECURSIVE MulBytes(_, _, _, _)
\* bytes k..8 of the product of a and b, carry being the carry into column k
MulBytes(a, b, k, carry) ==
  IF k > 8 THEN << >>
  ELSE LET s == ColSum(a, b, k, k) + carry
       IN  <<s % 256>> \o MulBytes(a, b, k + 1, s \div 256)

\* the product taken in 32 bits and sign extended afterwards: a * b without
\* the cast, on a build where the overflow wraps
Mul64Narrow(a, b) ==
  LET p == MulBytes(SignExtend64(a), SignExtend64(b), 1, 0)
  IN  [i \in 1..8 |-> IF i <= 4 THEN p[i] ELSE IF p[4] >= 128 THEN 255 ELSE 0]

\* (int64_t)a * b for int32_t a, b: the product modulo 2^64
Mul64(a, b) == MulBytes(SignExtend64(a), SignExtend64(b), 1, 0)

\* the value of a small non-negative int64_t (below 2^31)
Int64Value(w) == w[1] + 256 * w[2] + 65536 * w[3] + 16777216 * w[4]

Zero64 == [i \in 1..8 |-> 0]

\* --------------------------------------------------------------- doubles
Abs(a) == IF a < 0 THEN -a ELSE a

\* the greatest common divisor of s[1] and s[2]
Gcd[s \in Nat \X Nat] == IF s[2] = 0 THEN s[1] ELSE Gcd[<<s[2], s[1] % s[2]>>]
GCD(a, b) == Gcd[<<a, b>>]

NaN == [num |-> 0, den |-> 0]
Inf == [num |-> 1, den |-> 0]
IsFinite(a) == a.den # 0

\* p / q in lowest terms, q > 0
Norm(p, q) ==
  LET g == GCD(Abs(p), q)
  IN  [num |-> p \div g, den |-> q \div g]

\* (double)k for an integer k
D(k) == [num |-> k, den |-> 1]

\* the values a double takes here
Double == [num : Int, den : Nat]

\* the operations are functions of the pair of operands
Add[p \in Double \X Double] ==
  LET a == p[1]
      b == p[2]
  IN  IF ~IsFinite(a) \/ ~IsFinite(b) THEN NaN
      ELSE LET l == (a.den \div GCD(a.den, b.den)) * b.den
           IN  Norm(a.num * (l \div a.den) + b.num * (l \div b.den), l)

Sub[p \in Double \X Double] ==
  LET a == p[1]
      b == p[2]
  IN  IF ~IsFinite(a) \/ ~IsFinite(b) THEN NaN
      ELSE LET l == (a.den \div GCD(a.den, b.den)) * b.den
           IN  Norm(a.num * (l \div a.den) - b.num * (l \div b.den), l)

Mul[p \in Double \X Double] ==
  LET a == p[1]
      b == p[2]
  IN  IF ~IsFinite(a) \/ ~IsFinite(b) THEN NaN
      ELSE Norm(a.num * b.num, a.den * b.den)

Div[p \in Double \X Double] ==
  LET a == p[1]
      b == p[2]
  IN  IF ~IsFinite(a) \/ ~IsFinite(b) THEN NaN
      ELSE IF b.num = 0 THEN (IF a.num = 0 THEN NaN ELSE Inf)
      ELSE IF b.num > 0 THEN Norm(a.num * b.den, a.den * b.num)
      ELSE Norm(-(a.num * b.den), a.den * (-b.num))

\* a + b, a - b, a * b, a / b on doubles
DAdd(a, b) == Add[<<a, b>>]
DSub(a, b) == Sub[<<a, b>>]
DMul(a, b) == Mul[<<a, b>>]
DDiv(a, b) == Div[<<a, b>>]

\* ---------------------------------------------------------------- floats
Float0 == [m |-> 0, e |-> 0, surd |-> D(0)]
FloatNaN == [m |-> 0, e |-> 0, surd |-> NaN]

\* a float has 24 significant bits
Mant23 == 2 ^ 23

\* m * 2^e with the trailing zero bits of m moved into e
Odd[s \in Nat \X Int] ==
  IF s[1] % 2 = 0 THEN Odd[<<s[1] \div 2, s[2] + 1>>]
  ELSE [m |-> s[1], e |-> s[2], surd |-> D(0)]

\* long division rem/q continued until m has 24 significant bits, then rounded
\* to nearest, ties to even; s = <<m, rem, q, e>>
Bits24[s \in Nat \X Nat \X Nat \X Int] ==
  IF s[1] < Mant23
  THEN Bits24[<<2 * s[1] + (IF 2 * s[2] >= s[3] THEN 1 ELSE 0),
                (2 * s[2]) % s[3], s[3], s[4] - 1>>]
  ELSE LET up == 2 * s[2] > s[3] \/ (2 * s[2] = s[3] /\ s[1] % 2 = 1)
       IN  Odd[<<IF up THEN s[1] + 1 ELSE s[1], s[4]>>]

\* (float)a for a double a >= 0 below 2^24
Narrow[a \in Double] ==
  IF ~IsFinite(a) THEN FloatNaN
  ELSE IF a.num = 0 THEN Float0
  ELSE Bits24[<<a.num \div a.den, a.num % a.den, a.den, 0>>]
ToFloat(a) == Narrow[a]

\* the largest k in lo..hi with k * k <= v (lo * lo <= v); s = <<v, lo, hi>>
ISqrt[s \in Nat \X Nat \X Nat] ==
  IF s[2] = s[3] THEN s[2]
  ELSE LET mid == (s[2] + s[3] + 1) \div 2
       IN  IF mid * mid <= s[1] THEN ISqrt[<<s[1], mid, s[3]>>]
                                ELSE ISqrt[<<s[1], s[2], mid - 1>>]

\* (float)std::sqrt(a) for a double a >= 0
NarrowRoot[a \in Double] ==
  IF ~IsFinite(a) THEN FloatNaN
  ELSE LET rn == ISqrt[<<a.num, 0, 2 ^ 15>>]
           rd == ISqrt[<<a.den, 0, 2 ^ 15>>]
       IN  IF rn * rn = a.num /\ rd * rd = a.den
           THEN ToFloat([num |-> rn, den |-> rd])
           ELSE [m |-> 0, e |-> 0, surd |-> a]
FloatSqrt(a) == NarrowRoot[a]

\* ----------------------------------------------------------------- state
VARIABLES
  mem,        \* the bytes of the caller's buffer (offset k is mem[k+1])
  data,       \* the pointer argument: "null" or "buf" (the start of mem)
  width, height, rowStride,
  pc,         \* idle, entry, row1, px1, row2, px2, done, crashed
  r,          \* Result r: the value the last call returned
  sum, n, y, x, row, mean, var,
  reads1,     \* offsets read by the first pass of this call, in order
  reads2,     \* offsets read by the second pass of this call, in order
  ub,         \* this call has read outside the buffer
  prior       \* what the call before this one was: none, valid, degenerate

vars == <<mem, data, width, height, rowStride, pc, r, sum, n, y, x, row,
          mean, var, reads1, reads2, ub, prior>>

args == <<data, width, height, rowStride>>
locals == <<sum, n, y, x, row, mean, var>>

ZeroResult == [a |-> Float0, b |-> Float0]

Buffers == UNION {[1..l -> Samples] : l \in 0..MaxLen}
Pointers == {"null", "buf"}
Widths == -1..MaxWidth
Heights == -1..MaxHeight
Strides == -1..MaxStride

\* no call is in progress: no argument and no local holds a value
NoFrame ==
  /\ data = "null" /\ width = 0 /\ height = 0 /\ rowStride = 0
  /\ sum = D(0) /\ n = Zero64 /\ y = 0 /\ x = 0 /\ row = Zero64
  /\ mean = D(0) /\ var = D(0)
  /\ reads1 = << >> /\ reads2 = << >> /\ ub = FALSE

\* the caller holds a buffer and has not called yet
Init ==
  /\ mem \in Buffers
  /\ pc = "idle"
  /\ r = ZeroResult
  /\ NoFrame
  /\ prior = "none"

\* ------------------------------------------------------------- the code
\* Each line of the function that a statement below depends on is a
\* definition of its own, preceded by the faulty variant of that line the
\* statement is to tell it from.

\* variant: r is a static object, initialised once
ResultInitStatic == r
\* line 5: Result r{0, 0}
ResultInit == ZeroResult

\* variant: rowStride is not tested
DegenerateNoStride == data = "null" \/ width <= 0 \/ height <= 0
\* variant: rowStride < width is rejected as well
DegenerateHardened ==
  data = "null" \/ width <= 0 \/ height <= 0 \/ rowStride <= 0 \/ rowStride < width
\* line 6: if (!data || width <= 0 || height <= 0 || rowStride <= 0) return r
Degenerate == data = "null" \/ width <= 0 \/ height <= 0 \/ rowStride <= 0

\* variant: the product is taken in 32 bits, int64_t n = width * height
SampleCountNarrow == Mul64Narrow(width, height)
\* line 10: int64_t n = (int64_t)width * height
SampleCount == Mul64(width, height)

\* variant: y < height - 1
Pass1MoreShort == y < height - 1
\* line 11: y < height
Pass1More == y < height

\* variant: the row after
Row1OffsetNext == Mul64(y + 1, rowStride)
\* line 12: the offset of row[0] from data, (int64_t)y * rowStride
Row1Offset == Mul64(y, rowStride)

\* variant: x < rowStride
Pass1ColLimitStride == rowStride
\* line 13: x < width
Pass1ColLimit == width

\* variant: the mean of the row sums, sum / height
MeanOfRows == DDiv(sum, D(height))
\* line 15: double mean = sum / (double)n
MeanOf == DDiv(sum, D(Int64Value(n)))

\* line 19: y < height
Pass2More == y < height

\* variant: the row after
Row2OffsetNext == Mul64(y + 1, rowStride)
\* line 20: the offset of row[0] from data, (int64_t)y * rowStride
Row2Offset == Mul64(y, rowStride)

\* line 21: x < width
Pass2ColLimit == width

\* lines 13 and 22: the offset of row[x] from data
ReadOffset == Int64Value(row) + x

\* variant: the sample variance, var /= n - 1
VarOfSample == DDiv(var, D(Int64Value(n) - 1))
\* line 26: var /= (double)n
VarOf == DDiv(var, D(Int64Value(n)))

\* lines 5-10
Enter ==
  /\ pc = "entry"
  /\ r' = ResultInit
  /\ IF Degenerate
     THEN /\ pc' = "done"
          /\ UNCHANGED <<sum, n, y>>
     ELSE /\ pc' = "row1"
          /\ sum' = D(0)
          /\ n' = SampleCount
          /\ y' = 0
  /\ UNCHANGED <<mem, args, x, row, mean, var, reads1, reads2, ub, prior>>

\* lines 11-12: y < height; row = data + (int64_t)y * rowStride; x = 0
Pass1Row ==
  /\ pc = "row1" /\ Pass1More
  /\ row' = Row1Offset /\ x' = 0
  /\ pc' = "px1"
  /\ UNCHANGED <<mem, args, r, sum, n, y, mean, var, reads1, reads2, ub, prior>>

\* line 13: x < width; sum += row[x]; x++
Pass1Read ==
  /\ pc = "px1" /\ x < Pass1ColLimit
  /\ reads1' = Append(reads1, ReadOffset)
  /\ \/ /\ ReadOffset < Len(mem)
        /\ sum' = DAdd(sum, D(mem[ReadOffset + 1]))
        /\ x' = x + 1
        /\ UNCHANGED <<pc, ub>>
     \/ /\ ReadOffset >= Len(mem)
        /\ \E v \in Samples : sum' = DAdd(sum, D(v))
        /\ x' = x + 1
        /\ ub' = TRUE
        /\ UNCHANGED pc
     \/ /\ ReadOffset >= Len(mem)
        /\ pc' = "crashed"
        /\ ub' = TRUE
        /\ UNCHANGED <<sum, x>>
  /\ UNCHANGED <<mem, args, r, n, y, row, mean, var, reads2, prior>>

\* lines 13, 11: x >= width; y++
Pass1RowEnd ==
  /\ pc = "px1" /\ x >= Pass1ColLimit
  /\ y' = y + 1
  /\ pc' = "row1"
  /\ UNCHANGED <<mem, args, r, sum, n, x, row, mean, var, reads1, reads2, ub, prior>>

\* lines 11, 15, 18, 19: y >= height; mean = sum / n; var = 0; y = 0
ComputeMean ==
  /\ pc = "row1" /\ ~Pass1More
  /\ mean' = MeanOf
  /\ var' = D(0)
  /\ y' = 0
  /\ pc' = "row2"
  /\ UNCHANGED <<mem, args, r, sum, n, x, row, reads1, reads2, ub, prior>>

\* lines 19-20
Pass2Row ==
  /\ pc = "row2" /\ Pass2More
  /\ row' = Row2Offset /\ x' = 0
  /\ pc' = "px2"
  /\ UNCHANGED <<mem, args, r, sum, n, y, mean, var, reads1, reads2, ub, prior>>

\* lines 22-23: double d = row[x] - mean; var += d * d
Deviation(v) == LET d == DSub(D(v), mean) IN DAdd(var, DMul(d, d))

\* lines 21-24
Pass2Read ==
  /\ pc = "px2" /\ x < Pass2ColLimit
  /\ reads2' = Append(reads2, ReadOffset)
  /\ \/ /\ ReadOffset < Len(mem)
        /\ var' = Deviation(mem[ReadOffset + 1])
        /\ x' = x + 1
        /\ UNCHANGED <<pc, ub>>
     \/ /\ ReadOffset >= Len(mem)
        /\ \E v \in Samples : var' = Deviation(v)
        /\ x' = x + 1
        /\ ub' = TRUE
        /\ UNCHANGED pc
     \/ /\ ReadOffset >= Len(mem)
        /\ pc' = "crashed"
        /\ ub' = TRUE
        /\ UNCHANGED <<var, x>>
  /\ UNCHANGED <<mem, args, r, sum, n, y, row, mean, reads1, prior>>

\* lines 21, 19: x >= width; y++
Pass2RowEnd ==
  /\ pc = "px2" /\ x >= Pass2ColLimit
  /\ y' = y + 1
  /\ pc' = "row2"
  /\ UNCHANGED <<mem, args, r, sum, n, x, row, mean, var, reads1, reads2, ub, prior>>

\* lines 19, 26-30: y >= height; var /= n; r.a = (float)mean;
\* r.b = (float)sqrt(var); return r
Finish ==
  /\ pc = "row2" /\ ~Pass2More
  /\ var' = VarOf
  /\ r' = [a |-> ToFloat(mean), b |-> FloatSqrt(VarOf)]
  /\ pc' = "done"
  /\ UNCHANGED <<mem, args, sum, n, y, x, row, mean, reads1, reads2, ub, prior>>

\* the caller calls, with any arguments
Call ==
  /\ pc = "idle"
  /\ data' \in Pointers
  /\ width' \in Widths /\ height' \in Heights /\ rowStride' \in Strides
  /\ pc' = "entry"
  /\ UNCHANGED <<mem, r, locals, reads1, reads2, ub, prior>>

\* line 30, return r: the frame is gone, the caller holds the value returned
Return ==
  /\ pc = "done"
  /\ pc' = "idle"
  /\ prior' = IF Len(reads1) > 0 THEN "valid" ELSE "degenerate"
  /\ data' = "null" /\ width' = 0 /\ height' = 0 /\ rowStride' = 0
  /\ sum' = D(0) /\ n' = Zero64 /\ y' = 0 /\ x' = 0 /\ row' = Zero64
  /\ mean' = D(0) /\ var' = D(0)
  /\ reads1' = << >> /\ reads2' = << >> /\ ub' = FALSE
  /\ UNCHANGED <<mem, r>>

Step ==
  \/ Enter \/ Pass1Row \/ Pass1Read \/ Pass1RowEnd \/ ComputeMean
  \/ Pass2Row \/ Pass2Read \/ Pass2RowEnd \/ Finish

\* one call
Next == Call \/ Step

Spec == Init /\ [][Next]_vars

\* a call, once made, runs on: the function is straight-line sequential code
FairSpec == Spec /\ WF_vars(Step)

\* any number of calls on the same memory
NextCalls == Call \/ Step \/ Return

SpecCalls == Init /\ [][NextCalls]_vars

\* ------------------------------------------------- large 32-bit arguments
\* Arguments near the ends of the int32_t range.  The loops over such an
\* image are not run; the row loop is entered at any row below height.
WideInts == {1, 3, 46341, 65536, 65537, 2147483647}
WideRows == {1, 46341, 65536, 2147483646}

InitWide ==
  /\ mem = << >>
  /\ pc = "idle"
  /\ r = ZeroResult
  /\ NoFrame
  /\ prior = "none"

CallWide ==
  /\ pc = "idle"
  /\ data' = "buf"
  /\ width' \in WideInts /\ height' \in WideInts /\ rowStride' \in WideInts
  /\ pc' = "entry"
  /\ UNCHANGED <<mem, r, locals, reads1, reads2, ub, prior>>

\* lines 11 and 19 after any number of rows: y has some value below height
SkipRows ==
  /\ pc \in {"row1", "row2"} /\ y = 0
  /\ \E yy \in WideRows : yy < height /\ y' = yy
  /\ UNCHANGED <<mem, args, pc, r, sum, n, x, row, mean, var, reads1, reads2,
                 ub, prior>>

\* lines 11-19 with the first pass left out: the second pass starts at row 0
SkipPass1 ==
  /\ pc = "row1" /\ y = 0
  /\ pc' = "row2"
  /\ UNCHANGED <<mem, args, r, locals, reads1, reads2, ub, prior>>

NextWide == CallWide \/ Enter \/ SkipRows \/ Pass1Row \/ SkipPass1 \/ Pass2Row

SpecWide == InitWide /\ [][NextWide]_vars

\* ------------------------------------------------------------ properties
\* What the statements below are phrased in: written from the arguments and
\* the buffer alone, independently of the definitions of the code above.
NonNull == data = "buf"
BadArgs == data = "null" \/ width <= 0 \/ height <= 0 \/ rowStride <= 0
Positive == NonNull /\ width > 0 /\ height > 0 /\ rowStride > 0
ValidInput == NonNull /\ width > 0 /\ height > 0 /\ rowStride >= width
Count == width * height
Extent == (height - 1) * rowStride + width
Readable == Len(mem) >= Extent
Offsets == {yy * rowStride + xx : yy \in 0..(height - 1), xx \in 0..(width - 1)}
Padding == {yy * rowStride + xx : yy \in 0..(height - 1), xx \in width..(rowStride - 1)}
RowMajor == [k \in 1..Count |-> ((k - 1) \div width) * rowStride + ((k - 1) % width)]
Range(f) == {f[k] : k \in DOMAIN f}
IsPrefix(p, q) == Len(p) <= Len(q) /\ \A k \in 1..Len(p) : p[k] = q[k]
Entered == pc \notin {"idle", "entry"}
InPass2 == pc \in {"row2", "px2"}

RECURSIVE SumUpTo(_, _)
\* the sum of the first k samples of buffer m in row-major order
SumUpTo(m, k) == IF k = 0 THEN 0 ELSE m[RowMajor[k] + 1] + SumUpTo(m, k - 1)
SampleSum(m) == SumUpTo(m, Count)

RECURSIVE SqUpTo(_, _)
\* the sum over the first k samples s of (s * N - S)^2, S the sum of all
SqUpTo(m, k) ==
  IF k = 0 THEN 0
  ELSE LET t == m[RowMajor[k] + 1] * Count - SampleSum(m)
       IN  t * t + SqUpTo(m, k - 1)
SquareSum(m) == SqUpTo(m, Count)

AllEqual(m) == \A j, k \in 1..Count : m[RowMajor[j] + 1] = m[RowMajor[k] + 1]

\* the statistics of the logical width x height region of buffer m
Statistics(m) ==
  [a |-> ToFloat(Norm(SampleSum(m), Count)),
   b |-> FloatSqrt(Norm(SquareSum(m), Count * Count * Count))]

\* C1: with a null buffer, or width, height or rowStride not positive, the
\* call returns {0, 0} at once: it is done as soon as it has been entered,
\* has read no byte, and has no other outcome.
C1_DegenerateReturnsZero ==
  (BadArgs /\ Entered) =>
    /\ pc = "done"
    /\ r = ZeroResult
    /\ reads1 = << >> /\ reads2 = << >>
    /\ ~ub

C1_Witness ==
  /\ pc = "done" /\ NonNull /\ width > 0 /\ height > 0 /\ rowStride <= 0
  /\ Len(mem) > 0

PaddingVariants ==
  {m \in Buffers : Len(m) = Len(mem) /\ \A k \in Offsets : m[k + 1] = mem[k + 1]}

\* C4: on valid input with rowStride >= width each pass reads exactly the
\* offsets y * rowStride + x (y < height, x < width) and never a padding
\* offset, so the result is the same for every buffer that differs from
\* this one only in padding bytes.
C4_PaddingNeverRead ==
  (ValidInput /\ Readable) =>
    /\ Range(reads1) \subseteq Offsets /\ Range(reads2) \subseteq Offsets
    /\ Range(reads1) \cap Padding = {} /\ Range(reads2) \cap Padding = {}
    /\ (InPass2 \/ pc = "done") => Range(reads1) = Offsets
    /\ pc = "done" =>
         /\ Range(reads2) = Offsets
         /\ \A m \in PaddingVariants : r = Statistics(m)

\* a padded row whose padding byte differs from the samples
C4_Witness ==
  /\ pc = "done" /\ ValidInput /\ Readable
  /\ width = 1 /\ height = 2 /\ rowStride = 2
  /\ mem = <<0, 255, 0, 255>>
  /\ r = ZeroResult
  /\ Cardinality(PaddingVariants) > 1

\* C5: with positive width, height and rowStride and a buffer readable for
\* (height - 1) * rowStride + width bytes, every read is at an offset in
\* 0 .. (height - 1) * rowStride + width - 1, none is outside the buffer,
\* and the last byte of that range is read in each pass.
C5_ReadsInBounds ==
  (Positive /\ Readable) =>
    /\ \A k \in Range(reads1) \cup Range(reads2) : 0 <= k /\ k <= Extent - 1
    /\ ~ub /\ pc # "crashed"
    /\ (InPass2 \/ pc = "done") => (Extent - 1) \in Range(reads1)
    /\ pc = "done" => (Extent - 1) \in Range(reads2)

\* a buffer of exactly the extent, rows of 3 bytes holding 2 samples
C5_Witness ==
  /\ pc = "done" /\ Positive
  /\ width = 2 /\ height = 2 /\ rowStride = 2 /\ Len(mem) = Extent
  /\ 3 \in Range(reads2)

\* C6 as stated: on valid input every offset read is below width * rowStride.
C6_ReadsBelowWidthTimesStride ==
  ValidInput =>
    \A k \in Range(reads1) \cup Range(reads2) : k < width * rowStride

\* C6 as amended: on valid input every offset read is below
\* height * rowStride, the size of height rows of rowStride bytes.
C6_ReadsBelowHeightTimesStride ==
  ValidInput =>
    \A k \in Range(reads1) \cup Range(reads2) : k < height * rowStride

\* a tall image: an offset at or beyond width * rowStride has been read
C6_Witness ==
  /\ pc = "done" /\ ValidInput /\ Readable /\ height > width
  /\ \E k \in Range(reads2) : k >= width * rowStride

\* what a finished call has returned: {0, 0} for degenerate arguments, the
\* statistics of the logical region otherwise
Returned ==
  (pc = "done" /\ (BadArgs \/ Readable)) =>
    r = IF BadArgs THEN ZeroResult ELSE Statistics(mem)

\* C7: the call is a pure function.  No step changes the buffer, and after
\* any sequence of calls the value returned is the one the arguments and the
\* buffer determine, whatever calls were made before: two calls with the
\* same arguments on the same buffer return the same.
C7_PureFunction == [][mem' = mem]_vars /\ []Returned

\* a degenerate call after a valid call that returned something else
C7_Witness ==
  /\ pc = "done" /\ BadArgs /\ prior = "valid" /\ r = ZeroResult
  /\ mem = <<255>>

\* the reads of each pass follow the row-major order of the samples; the
\* second pass starts only when the first has read them all and the mean is
\* the mean of them all; a finished call has read each sample once per pass
PassOrder ==
  (ValidInput /\ Readable) =>
    /\ IsPrefix(reads1, RowMajor) /\ IsPrefix(reads2, RowMajor)
    /\ (Len(reads2) > 0 \/ InPass2 \/ pc = "done") =>
         /\ reads1 = RowMajor
         /\ sum = D(SampleSum(mem))
         /\ mean = Norm(SampleSum(mem), Count)
    /\ pc \in {"entry", "row1", "px1"} => reads2 = << >>
    /\ pc = "done" =>
         /\ reads2 = RowMajor
         /\ Len(reads1) + Len(reads2) = 2 * width * height
         /\ r = Statistics(mem)

\* no step of the second pass changes the mean
MeanFixed == (InPass2 /\ ValidInput /\ Readable) => mean' = mean

\* C8: on valid input the call makes two full passes in row-major order, one
\* after the other: a squared deviation is accumulated only once all
\* width * height samples are in the sum and the mean is fixed, the mean
\* does not change during the second pass, each pass reads each sample once
\* (2 * width * height reads in all), and the call then ends with a result.
C8_TwoPasses ==
  /\ []PassOrder
  /\ [][MeanFixed]_vars
  /\ (ValidInput /\ Readable) ~> (pc = "done")

\* a 2 x 2 image after its last read
C8_Witness ==
  /\ pc = "done" /\ ValidInput /\ Readable
  /\ width = 2 /\ height = 2 /\ rowStride = 2
  /\ reads1 = <<0, 1, 2, 3>> /\ reads2 = <<0, 1, 2, 3>>

\* C9: with a non-null buffer, height > 0 and 0 < rowStride < width the call
\* does not return early: both passes run over the offsets y * rowStride + x
\* for all x < width, rows overlap, and the highest offset read,
\* (height - 1) * rowStride + width - 1, is at or beyond height * rowStride.
C9_NarrowStrideUnchecked ==
  (NonNull /\ height > 0 /\ 0 < rowStride /\ rowStride < width /\ Entered) =>
    /\ pc = "done" => Len(reads1) > 0
    /\ IsPrefix(reads1, RowMajor) /\ IsPrefix(reads2, RowMajor)
    /\ pc = "done" =>
         /\ reads1 = RowMajor /\ reads2 = RowMajor
         /\ (Extent - 1) \in Range(reads2)
         /\ Extent - 1 >= height * rowStride
         /\ \A k \in Range(reads2) : k <= Extent - 1
         /\ height > 1 =>
              \E j, k \in 1..Count : j # k /\ reads2[j] = reads2[k]

\* two rows of 2 samples, 1 byte apart, in a buffer of 2 bytes
C9_Witness ==
  /\ pc = "done" /\ NonNull
  /\ width = 2 /\ height = 2 /\ rowStride = 1 /\ Len(mem) = 2
  /\ reads2 = <<0, 1, 1, 2>> /\ ub

\* pairwise coprime moduli whose product exceeds 2^64: a 64-bit word below
\* 2^63 whose residues are those of a * b is the integer a * b
Moduli == {32707, 32713, 32717, 32719, 32749}

\* the value of the bytes k..8 of word w, modulo m
Residue[s \in Seq(0..255) \X (1..9) \X Nat] ==
  IF s[2] > 8 THEN 0
  ELSE (Residue[<<s[1], s[2] + 1, s[3]>>] * 256 + s[1][s[2]]) % s[3]

\* the 64-bit word w is the integer a * b (a, b >= 0), and is not negative
IsProduct(w, a, b) ==
  /\ w[8] < 128
  /\ \A m \in Moduli : Residue[<<w, 1, m>>] = ((a % m) * (b % m)) % m

\* C10: n and the row offsets are computed in 64 bits: for all positive
\* 32-bit width, height and rowStride, n is the integer width * height (never
\* wrapped modulo 2^32, never zero or negative) and the offset of row y is
\* the integer y * rowStride, also beyond 2^31 - 1.
C10_NoWrap ==
  (Positive /\ pc \in {"row1", "px1", "row2", "px2"}) =>
    /\ IsProduct(n, width, height)
    /\ n # Zero64
    /\ pc \in {"px1", "px2"} => IsProduct(row, y, rowStride)

\* 65536 x 65536: n = 2^32, which is 0 modulo 2^32; row 46341 of rows 46341
\* bytes apart starts at 2147488281 = 2^31 + 4633
C10_Witness ==
  /\ pc = "px2"
  /\ width = 65536 /\ height = 65536
  /\ n = <<0, 0, 0, 0, 1, 0, 0, 0>>
  /\ y = 46341 /\ rowStride = 46341
  /\ row = <<25, 18, 0, 128, 0, 0, 0, 0>>

====
